---- MODULE Spec2Model ----
(***************************************************************************)
(* Model of src/contract/optimizedMint.ts: the lazily constructed          *)
(* OptimizedMintProcessor singleton, its request queue, the processBatch   *)
(* drain loop, and the block handler installed by startErrorMonitoring.    *)
(*                                                                         *)
(* JavaScript runs the program on one thread; a handler runs without       *)
(* interruption until its next await.  Every action below is one such run: *)
(* from the resumption of an await (or the start of a call) to the next    *)
(* await.  The outcome of the awaited external call is the action's input. *)
(***************************************************************************)
EXTENDS Integers, Sequences, FiniteSets, TLC

\* ---------------------------------------------------------------- bounds
\* Number of optimizedMintNft calls the callers make.
MaxCalls == 3
\* Number of "block" notifications the provider delivers.
MaxBlocks == 1
\* Number of times the ledger answers a monitor query with "absent".
MaxDrops == 1
\* options.batchSize of the processor under analysis (the default is 100).
batchSize == 2
\* Number of logs in a confirmation receipt.
MaxLogs == 2

\* ------------------------------------------------------------- constants
\* options.maxRetries
maxRetries == 3
\* maxFeePerGas values the fee oracle may quote.
Fees == {10, 14}
\* Values provider.getTransactionCount may report to initialize().
ChainCounts == {0, 2}

\* `processor` before the first construction (null).
NoProcessor == 0
\* MintRequest.gasPrice when the optional field is absent (undefined).
NoGasPrice == 0
\* The starter of a drain that the block handler started (no request).
NoRequest == 0

Requests == 1..MaxCalls
Handlers == 1..MaxBlocks

\* A log of a receipt, by what contract.interface.parseLog makes of it: it
\* throws, it returns null (no fragment matches), or it returns the parsed
\* event with its name and args[2].
LogKinds ==
  {[parse |-> "throws", name |-> "", arg |-> 0],
   [parse |-> "null", name |-> "", arg |-> 0],
   [parse |-> "event", name |-> "Approval", arg |-> 1],
   [parse |-> "event", name |-> "Transfer", arg |-> 1],
   [parse |-> "event", name |-> "Transfer", arg |-> 2]}

\* receipt.logs of a confirmed transaction.
Receipts == UNION {[1..n -> LogKinds] : n \in 0..MaxLogs}

\* The receipts with at most one log.  The logs decide nothing but the token
\* id handed to resolve, so the specifications that are not about the token
\* id draw the receipts from this set.
ShortReceipts == {logs \in Receipts : Len(logs) <= 1}

\* No value was passed to resolve.
NoResult == [request |-> NoRequest, nonce |-> 0, tokenId |-> "", logs |-> <<>>]

VARIABLES
  \* module-level singleton and the callers of optimizedMintNft
  processor,            \* instance id, NoProcessor while null
  nCreated,             \* OptimizedMintProcessor objects constructed
  initCalls,            \* invocations of initialize()
  initPc,               \* "none" | "owner" | "count" | "done" | "failed"
  returned,             \* instance ids getOptimizedMintProcessor returned
  nCalls,               \* optimizedMintNft calls made
  \* fields of the processor
  queue,
  processing,
  currentNonce,
  pendingTransactions,  \* nonce -> [request, retries, gasPrice, seq]
  lastGasPrice,
  monitoring,           \* the "block" listener is installed
  \* the processBatch execution that passed the processing check
  pc,                   \* "idle" | "fee" | "upload" | "estimate" | "send" | "wait" | "delay"
  batch,
  idx,                  \* i + 1 of the item being processed, 0 outside the for loop
  nonce,                \* const nonce of the current iteration
  feeQuote,             \* gasPrice.maxFeePerGas of the current pass
  starter,              \* request whose addToQueue started the drain, or NoRequest
  \* executions of the block handler
  handlers,
  nBlocks,
  nDrops,
  nextSeq,              \* insertion stamp of the next new Map key
  \* observations
  nReq,                 \* requests passed to addToQueue (ids 1..nReq)
  resolveCount,
  rejectCount,
  confirmedCount,       \* confirmed mint transactions per request
  sent,                 \* calls of contract.safeMint, in order
  batchLog,             \* batches formed by splice, in order
  creatorReq,           \* id of the request of the call that ran initialize(), 0 if none yet
  lastEvent,            \* the latest step of the drain loop or of a block handler
  lastResult            \* the value the latest step passed to request.resolve, if any

procVars == <<processor, nCreated, initCalls, initPc, returned, nCalls>>
drainVars == <<pc, batch, idx, nonce, feeQuote, starter>>
monVars == <<handlers, nBlocks, nDrops>>
obsVars == <<nReq, resolveCount, rejectCount, confirmedCount, sent, batchLog, creatorReq>>
vars == <<processor, nCreated, initCalls, initPc, returned, nCalls,
          queue, processing, currentNonce, pendingTransactions, lastGasPrice,
          monitoring, pc, batch, idx, nonce, feeQuote, starter,
          handlers, nBlocks, nDrops, nextSeq,
          nReq, resolveCount, rejectCount, confirmedCount, sent, batchLog,
          creatorReq, lastEvent, lastResult>>

\* ---------------------------------------------------------------- helpers
Min(a, b) == IF a < b THEN a ELSE b

Ids(s) == [k \in 1..Len(s) |-> s[k].id]

Occurrences(s, r) == Cardinality({k \in 1..Len(s) : s[k].id = r})

InQueue(r) == \E k \in 1..Len(queue) : queue[k].id = r

InBatch(r) == \E k \in 1..Len(batch) : batch[k].id = r

\* A MintRequest as addToQueue builds it.  `dropped` is not a field of the
\* program: it records the nonces whose in-flight entries this copy replaced.
NewRequest(r) == [id |-> r, gasPrice |-> NoGasPrice, dropped |-> {}]

\* The empty Map.
EmptyMap == [k \in {} |-> 0]

\* A handler that is not running holds no entry.
NoEntry == [request |-> NewRequest(NoRequest), retries |-> 0, gasPrice |-> 0, seq |-> 0]
IdleHandler == [pc |-> "idle", nonce |-> 0, entry |-> NoEntry, last |-> 0]
DoneHandler == [pc |-> "done", nonce |-> 0, entry |-> NoEntry, last |-> 0]

\* Mutant of SpliceTaken: the batch is taken from the end of the queue
\* (splice(-batchSize)) while the queue keeps what SpliceRest leaves.
SpliceTakenFromEnd(q) == SubSeq(q, Len(q) - Min(batchSize, Len(q)) + 1, Len(q))

\* queue.splice(0, batchSize): the removed prefix and what stays.
SpliceTaken(q) == SubSeq(q, 1, Min(batchSize, Len(q)))
SpliceRest(q) == SubSeq(q, Min(batchSize, Len(q)) + 1, Len(q))

\* (pendingTx.gasPrice * BigInt(120)) / BigInt(100): bigint division truncates.
NewGasPrice(g) == (g * 120) \div 100

\* pendingTransactions.set(n, e): an existing key keeps its place in the
\* Map's iteration order, a new key goes last.
MapSet(m, n, req, g) ==
  [k \in DOMAIN m \cup {n} |->
     IF k = n
       THEN [request |-> req, retries |-> 0, gasPrice |-> g,
             seq |-> IF n \in DOMAIN m THEN m[n].seq ELSE nextSeq]
       ELSE m[k]]

MapDelete(m, n) == [k \in DOMAIN m \ {n} |-> m[k]]

\* The Map iterator: the first entry inserted after stamp `last`, if any.
LaterKeys(m, last) == {k \in DOMAIN m : m[k].seq > last}
NextKey(m, last) ==
  CHOOSE k \in LaterKeys(m, last) :
    \A j \in LaterKeys(m, last) : m[k].seq <= m[j].seq

\* Mutant of ParseLogs: the loop over the logs has no `break`, so the last
\* Transfer log decides.
RECURSIVE ParseLogsNoBreak(_, _, _)
ParseLogsNoBreak(logs, k, tokenId) ==
  IF k > Len(logs) THEN tokenId
  ELSE IF logs[k].parse = "event" /\ logs[k].name = "Transfer"
         THEN ParseLogsNoBreak(logs, k + 1, ToString(logs[k].arg))
         ELSE ParseLogsNoBreak(logs, k + 1, tokenId)

\* Lines 273-288: `for (const log of receipt.logs)` from log k on, with the
\* current value of tokenId.  A log whose parse throws is skipped by the
\* catch, a log that parses to null or to another event is skipped by the
\* if, the first Transfer sets tokenId to args[2].toString() and breaks.
RECURSIVE ParseLogs(_, _, _)
ParseLogs(logs, k, tokenId) ==
  IF k > Len(logs) THEN tokenId
  ELSE IF logs[k].parse = "throws" THEN ParseLogs(logs, k + 1, tokenId)
  ELSE IF logs[k].parse = "event" /\ logs[k].name = "Transfer"
         THEN ToString(logs[k].arg)
         ELSE ParseLogs(logs, k + 1, tokenId)

\* let tokenId = "0" and the loop over the logs.
TokenIdOf(logs) == ParseLogs(logs, 1, "0")

\* ------------------------------------------------------------------- Init
Init ==
  /\ processor = NoProcessor
  /\ nCreated = 0
  /\ initCalls = 0
  /\ initPc = "none"
  /\ returned = {}
  /\ nCalls = 0
  /\ queue = <<>>
  /\ processing = FALSE
  /\ currentNonce = 0
  /\ pendingTransactions = EmptyMap
  /\ lastGasPrice = 0
  /\ monitoring = FALSE
  /\ pc = "idle"
  /\ batch = <<>>
  /\ idx = 0
  /\ nonce = 0
  /\ feeQuote = 0
  /\ starter = NoRequest
  /\ handlers = [h \in Handlers |-> IdleHandler]
  /\ nBlocks = 0
  /\ nDrops = 0
  /\ nextSeq = 1
  /\ nReq = 0
  /\ resolveCount = [r \in Requests |-> 0]
  /\ rejectCount = [r \in Requests |-> 0]
  /\ confirmedCount = [r \in Requests |-> 0]
  /\ sent = <<>>
  /\ batchLog = <<>>
  /\ creatorReq = 0
  /\ lastEvent = "none"
  /\ lastResult = NoResult

\* ------------------------------------------------------------ processBatch
\* One pass of `while (this.queue.length > 0)` up to `await getFeeData()`.
TakeBatch(q) ==
  /\ batch' = SpliceTaken(q)
  /\ queue' = SpliceRest(q)
  /\ batchLog' = Append(batchLog, Ids(SpliceTaken(q)))
  /\ pc' = "fee"
  /\ idx' = 0
  /\ nonce' = 0
  /\ feeQuote' = 0

\* Mutant of TryStartDrain: neither the caller nor processBatch tests the
\* processing flag.
TryStartDrainUnguarded(q, s) ==
  /\ processing' = TRUE
  /\ starter' = s
  /\ TakeBatch(q)

\* `if (!this.processing) this.processBatch()` with the queue already updated
\* to q; s is the request whose reject the caller's catch holds.
TryStartDrain(q, s) ==
  IF processing
    THEN /\ queue' = q
         /\ UNCHANGED <<processing, pc, batch, idx, nonce, feeQuote, starter, batchLog>>
    ELSE /\ processing' = TRUE
         /\ starter' = s
         /\ TakeBatch(q)

\* The while loop ends (queue empty) and `finally` runs.
ExitDrain ==
  /\ processing' = FALSE
  /\ pc' = "idle"
  /\ batch' = <<>>
  /\ idx' = 0
  /\ nonce' = 0
  /\ feeQuote' = 0
  /\ starter' = NoRequest

\* Mutant of AfterBatch: the drain returns after one batch whatever the
\* queue holds (an `if` in place of the `while`).
AfterBatchReturns == ExitDrain

\* Lines 311-317 after a batch: wait timeWindow if requests are queued,
\* otherwise leave the loop.
AfterBatch ==
  IF Len(queue) > 0
    THEN /\ pc' = "delay"
         /\ batch' = <<>>
         /\ idx' = 0
         /\ nonce' = 0
         /\ feeQuote' = 0
         /\ UNCHANGED <<processing, starter>>
    ELSE ExitDrain

\* The end of iteration idx of the for loop: the next iteration computes its
\* nonce and calls estimateGas; after the last one the allocator advances.
NextItem ==
  IF idx < Len(batch)
    THEN /\ idx' = idx + 1
         /\ nonce' = currentNonce + idx
         /\ pc' = "estimate"
         /\ UNCHANGED <<batch, feeQuote, processing, starter, currentNonce>>
    ELSE /\ currentNonce' = currentNonce + Len(batch)
         /\ AfterBatch

\* ------------------------------------- singleton, initialize, addToQueue
\* Mutant of NeedsCreate: the processor is constructed again as long as the
\* existing one has not finished initialize().
NeedsCreateUntilInitialized(p) == p = NoProcessor \/ initPc # "done"

\* if (!processor)
NeedsCreate(p) == p = NoProcessor

\* addToQueue(metadataInfo, mintToAddress): the request gets the next id, is
\* pushed, and a drain is started if none runs.
AddToQueue ==
  /\ nReq' = nReq + 1
  /\ TryStartDrain(Append(queue, NewRequest(nReq + 1)), nReq + 1)

\* A call of optimizedMintNft.  When `processor` is null the constructors run
\* synchronously, `processor` is assigned and the call stops at the first
\* await of initialize().  Otherwise getOptimizedMintProcessor returns the
\* existing object; the awaits up to addToQueue are on settled promises, so
\* they resume from the microtask queue before any I/O callback runs.
MintCall ==
  /\ nCalls < MaxCalls
  /\ UNCHANGED lastEvent
  /\ lastResult' = NoResult
  /\ nCalls' = nCalls + 1
  /\ IF NeedsCreate(processor)
       THEN /\ nCreated' = nCreated + 1
            /\ processor' = nCreated + 1
            /\ initCalls' = initCalls + 1
            /\ initPc' = "owner"
            /\ UNCHANGED <<returned, queue, processing, drainVars, nReq, batchLog>>
       ELSE /\ returned' = returned \cup {processor}
            /\ AddToQueue
            /\ UNCHANGED <<nCreated, processor, initCalls, initPc>>
  /\ UNCHANGED <<currentNonce, pendingTransactions, lastGasPrice, monitoring,
                 monVars, nextSeq, resolveCount, rejectCount, confirmedCount, sent, creatorReq>>

\* initialize(): contract.owner() returns.  ok is FALSE when the call throws
\* or the owner differs from the wallet address; then initialize() throws and
\* so does the optimizedMintNft call that created the processor.
InitOwner(ok) ==
  /\ initPc = "owner"
  /\ UNCHANGED lastEvent
  /\ lastResult' = NoResult
  /\ initPc' = IF ok THEN "count" ELSE "failed"
  /\ UNCHANGED <<processor, nCreated, initCalls, returned, nCalls,
                 queue, processing, currentNonce, pendingTransactions,
                 lastGasPrice, monitoring, drainVars, monVars, nextSeq, obsVars>>

\* initialize(): provider.getTransactionCount throws; the creating call throws.
InitCountFail ==
  /\ initPc = "count"
  /\ UNCHANGED lastEvent
  /\ lastResult' = NoResult
  /\ initPc' = "failed"
  /\ UNCHANGED <<processor, nCreated, initCalls, returned, nCalls,
                 queue, processing, currentNonce, pendingTransactions,
                 lastGasPrice, monitoring, drainVars, monVars, nextSeq, obsVars>>

\* initialize(): provider.getTransactionCount returns n; the allocator is
\* set, the listener is installed, getOptimizedMintProcessor returns to the
\* creating call and that call runs addToQueue.
InitCount(n) ==
  /\ initPc = "count"
  /\ UNCHANGED lastEvent
  /\ lastResult' = NoResult
  /\ initPc' = "done"
  /\ currentNonce' = n
  /\ monitoring' = TRUE
  /\ returned' = returned \cup {processor}
  /\ creatorReq' = nReq + 1
  /\ AddToQueue
  /\ UNCHANGED <<processor, nCreated, initCalls, nCalls, pendingTransactions,
                 lastGasPrice, monVars, nextSeq, resolveCount, rejectCount,
                 confirmedCount, sent>>

\* getFeeData() returns a quote with maxFeePerGas = f.
FeeOk(f) ==
  /\ pc = "fee"
  /\ lastEvent' = "FeeOk"
  /\ lastResult' = NoResult
  /\ lastGasPrice' = f
  /\ feeQuote' = f
  /\ pc' = "upload"
  /\ UNCHANGED <<procVars, queue, processing, currentNonce, pendingTransactions,
                 monitoring, batch, idx, nonce, starter, monVars, nextSeq, obsVars>>

\* Mutant of FeeFail: the loop is left without the `finally`, so processing
\* stays set.
FeeFailKeepsProcessing ==
  /\ pc = "fee"
  /\ lastEvent' = "FeeFail"
  /\ lastResult' = NoResult
  /\ pc' = "idle"
  /\ batch' = <<>>
  /\ idx' = 0
  /\ nonce' = 0
  /\ feeQuote' = 0
  /\ starter' = NoRequest
  /\ rejectCount' = IF starter = NoRequest THEN rejectCount
                    ELSE [rejectCount EXCEPT ![starter] = @ + 1]
  /\ UNCHANGED <<procVars, queue, processing, currentNonce, pendingTransactions,
                 lastGasPrice, monitoring, monVars, nextSeq, nReq, resolveCount,
                 confirmedCount, sent, batchLog, creatorReq>>

\* getFeeData() throws or carries no maxFeePerGas: the error leaves the while
\* loop, `finally` clears processing, the batch just taken is dropped, and
\* the catch of the addToQueue call that started the drain rejects that
\* call's request.  The catch of a drain started by the block handler only
\* rethrows, which changes no field of the processor.
FeeFail ==
  /\ pc = "fee"
  /\ lastEvent' = "FeeFail"
  /\ lastResult' = NoResult
  /\ ExitDrain
  /\ rejectCount' = IF starter = NoRequest THEN rejectCount
                    ELSE [rejectCount EXCEPT ![starter] = @ + 1]
  /\ UNCHANGED <<procVars, queue, currentNonce, pendingTransactions, lastGasPrice,
                 monitoring, monVars, nextSeq, nReq, resolveCount, confirmedCount,
                 sent, batchLog, creatorReq>>

\* uploadMetadataInBatch resolves: every upload of the batch succeeded.
UploadOk ==
  /\ pc = "upload"
  /\ lastEvent' = "UploadOk"
  /\ lastResult' = NoResult
  /\ idx' = 1
  /\ nonce' = currentNonce
  /\ pc' = "estimate"
  /\ UNCHANGED <<procVars, queue, processing, currentNonce, pendingTransactions,
                 lastGasPrice, monitoring, batch, feeQuote, starter, monVars,
                 nextSeq, obsVars>>

\* Mutant of UploadFail: the allocator advances although the batch was aborted
\* (`currentNonce += batch.length` moved behind the inner catch).
UploadFailBurnsNonces(failed) ==
  /\ pc = "upload"
  /\ lastEvent' = "UploadFail"
  /\ lastResult' = NoResult
  /\ failed # {} /\ failed \subseteq 1..Len(batch)
  /\ rejectCount' = [r \in Requests |-> rejectCount[r] + Occurrences(batch, r)]
  /\ currentNonce' = currentNonce + Len(batch)
  /\ AfterBatch
  /\ UNCHANGED <<procVars, queue, pendingTransactions, lastGasPrice,
                 monitoring, monVars, nextSeq, nReq, resolveCount, confirmedCount,
                 sent, batchLog, creatorReq>>

\* uploadMetadataInBatch rejects: the uploads in `failed` (not empty) threw.
\* batch.forEach(request => request.reject(error)), then lines 311-317.
UploadFail(failed) ==
  /\ pc = "upload"
  /\ lastEvent' = "UploadFail"
  /\ lastResult' = NoResult
  /\ failed # {} /\ failed \subseteq 1..Len(batch)
  /\ rejectCount' = [r \in Requests |-> rejectCount[r] + Occurrences(batch, r)]
  /\ AfterBatch
  /\ UNCHANGED <<procVars, queue, currentNonce, pendingTransactions, lastGasPrice,
                 monitoring, monVars, nextSeq, nReq, resolveCount, confirmedCount,
                 sent, batchLog, creatorReq>>

\* estimateGas returns; contract.safeMint is called with the iteration's nonce
\* and the pass's fee quote.
EstimateOk ==
  /\ pc = "estimate"
  /\ lastEvent' = "EstimateOk"
  /\ lastResult' = NoResult
  /\ sent' = Append(sent, [id |-> batch[idx].id, nonce |-> nonce, fee |-> feeQuote,
                           dropped |-> batch[idx].dropped,
                           override |-> batch[idx].gasPrice])
  /\ pc' = "send"
  /\ UNCHANGED <<procVars, queue, processing, currentNonce, pendingTransactions,
                 lastGasPrice, monitoring, batch, idx, nonce, feeQuote, starter,
                 monVars, nextSeq, nReq, resolveCount, rejectCount, confirmedCount,
                 batchLog, creatorReq>>

\* estimateGas throws: the item is rejected, the loop goes on.
EstimateFail ==
  /\ pc = "estimate"
  /\ lastEvent' = "EstimateFail"
  /\ lastResult' = NoResult
  /\ rejectCount' = [rejectCount EXCEPT ![batch[idx].id] = @ + 1]
  /\ NextItem
  /\ UNCHANGED <<procVars, queue, pendingTransactions, lastGasPrice, monitoring,
                 monVars, nextSeq, nReq, resolveCount, confirmedCount, sent, batchLog, creatorReq>>

\* safeMint returns the transaction: the in-flight entry is recorded and
\* tx.wait() is called.
SendOk ==
  /\ pc = "send"
  /\ lastEvent' = "SendOk"
  /\ lastResult' = NoResult
  /\ pendingTransactions' = MapSet(pendingTransactions, nonce, batch[idx], lastGasPrice)
  /\ nextSeq' = IF nonce \in DOMAIN pendingTransactions THEN nextSeq ELSE nextSeq + 1
  /\ pc' = "wait"
  /\ UNCHANGED <<procVars, queue, processing, currentNonce, lastGasPrice, monitoring,
                 batch, idx, nonce, feeQuote, starter, monVars, obsVars>>

\* Mutant of SendFail: the error of one item leaves the for loop (no inner
\* try), so the batch-wide catch rejects every request of the batch.
SendFailAbortsBatch ==
  /\ pc = "send"
  /\ lastEvent' = "SendFail"
  /\ lastResult' = NoResult
  /\ rejectCount' = [r \in Requests |-> rejectCount[r] + Occurrences(batch, r)]
  /\ AfterBatch
  /\ UNCHANGED <<procVars, queue, currentNonce, pendingTransactions, lastGasPrice,
                 monitoring, monVars, nextSeq, nReq, resolveCount, confirmedCount,
                 sent, batchLog, creatorReq>>

\* safeMint throws: the item is rejected, the loop goes on.
SendFail ==
  /\ pc = "send"
  /\ lastEvent' = "SendFail"
  /\ lastResult' = NoResult
  /\ rejectCount' = [rejectCount EXCEPT ![batch[idx].id] = @ + 1]
  /\ NextItem
  /\ UNCHANGED <<procVars, queue, pendingTransactions, lastGasPrice, monitoring,
                 monVars, nextSeq, nReq, resolveCount, confirmedCount, sent, batchLog, creatorReq>>

\* tx.wait() returns the receipt with the given logs: the entry of this nonce
\* is deleted, the token id is read from the logs and the request is resolved.
WaitOk(logs) ==
  /\ pc = "wait"
  /\ lastEvent' = "WaitOk"
  /\ lastResult' = [request |-> batch[idx].id, nonce |-> nonce,
                    tokenId |-> TokenIdOf(logs), logs |-> logs]
  /\ pendingTransactions' = MapDelete(pendingTransactions, nonce)
  /\ resolveCount' = [resolveCount EXCEPT ![batch[idx].id] = @ + 1]
  /\ confirmedCount' = [confirmedCount EXCEPT ![batch[idx].id] = @ + 1]
  /\ NextItem
  /\ UNCHANGED <<procVars, queue, lastGasPrice, monitoring, monVars, nextSeq,
                 nReq, rejectCount, sent, batchLog, creatorReq>>

\* tx.wait() throws (revert, replacement): the request is rejected; the
\* in-flight entry stays in the Map.
WaitFail ==
  /\ pc = "wait"
  /\ lastEvent' = "WaitFail"
  /\ lastResult' = NoResult
  /\ rejectCount' = [rejectCount EXCEPT ![batch[idx].id] = @ + 1]
  /\ NextItem
  /\ UNCHANGED <<procVars, queue, pendingTransactions, lastGasPrice, monitoring,
                 monVars, nextSeq, nReq, resolveCount, confirmedCount, sent, batchLog, creatorReq>>

\* The timeWindow timer fires and the while condition is evaluated again: the
\* next batch is taken (the queue only grows while the drain sleeps, so the
\* loop never ends here).
Delay ==
  /\ pc = "delay"
  /\ lastEvent' = "Delay"
  /\ lastResult' = NoResult
  /\ IF Len(queue) > 0
       THEN TakeBatch(queue) /\ UNCHANGED <<processing, starter>>
       ELSE ExitDrain /\ UNCHANGED <<queue, batchLog>>
  /\ UNCHANGED <<procVars, currentNonce, pendingTransactions, lastGasPrice,
                 monitoring, monVars, nextSeq, nReq, resolveCount, rejectCount,
                 confirmedCount, sent, creatorReq>>

\* ---------------------------------------------------------- block handler
\* The for-of loop over pendingTransactions.entries() reaches its next entry
\* and awaits provider.getTransaction, or finds none and the handler returns.
Visit(m, last) ==
  IF LaterKeys(m, last) = {}
    THEN DoneHandler
    ELSE [pc |-> "query", nonce |-> NextKey(m, last),
          entry |-> m[NextKey(m, last)], last |-> m[NextKey(m, last)].seq]

\* The request the handler puts back: {...pendingTx.request, gasPrice: newGasPrice}
RetryCopy(e, n) ==
  [id |-> e.request.id, gasPrice |-> NewGasPrice(e.gasPrice),
   dropped |-> e.request.dropped \cup {n}]

\* provider.on("block", ...): a notification starts a handler.
Block ==
  /\ monitoring
  /\ lastEvent' = "Block"
  /\ lastResult' = NoResult
  /\ nBlocks < MaxBlocks
  /\ nBlocks' = nBlocks + 1
  /\ handlers' = [handlers EXCEPT ![nBlocks + 1] = Visit(pendingTransactions, 0)]
  /\ UNCHANGED <<procVars, queue, processing, currentNonce, pendingTransactions,
                 lastGasPrice, monitoring, drainVars, nDrops, nextSeq, obsVars>>

\* getTransaction returned nothing and the captured entry has retries left:
\* the key is deleted, the copy goes to the front of the queue, a drain is
\* started if none runs, and the loop moves to the next entry.
MonitorRetry(h) ==
  /\ handlers[h].pc = "query"
  /\ lastEvent' = "MonitorRetry"
  /\ lastResult' = NoResult
  /\ handlers[h].entry.retries < maxRetries
  /\ nDrops < MaxDrops
  /\ nDrops' = nDrops + 1
  /\ pendingTransactions' = MapDelete(pendingTransactions, handlers[h].nonce)
  /\ TryStartDrain(<<RetryCopy(handlers[h].entry, handlers[h].nonce)>> \o queue, NoRequest)
  /\ handlers' = [handlers EXCEPT
                    ![h] = Visit(MapDelete(pendingTransactions, handlers[h].nonce),
                                 handlers[h].last)]
  /\ UNCHANGED <<procVars, currentNonce, lastGasPrice, monitoring, nBlocks, nextSeq,
                 nReq, resolveCount, rejectCount, confirmedCount, sent, creatorReq>>

\* getTransaction found the transaction, threw, or the entry has no retries
\* left: nothing changes and the loop moves to the next entry.
MonitorKeep(h, outcome) ==
  /\ handlers[h].pc = "query"
  /\ lastEvent' = "MonitorKeep"
  /\ lastResult' = NoResult
  /\ outcome \in {"found", "error"}
       \/ (outcome = "absent" /\ handlers[h].entry.retries >= maxRetries)
  /\ handlers' = [handlers EXCEPT ![h] = Visit(pendingTransactions, handlers[h].last)]
  /\ UNCHANGED <<procVars, queue, processing, currentNonce, pendingTransactions,
                 lastGasPrice, monitoring, drainVars, nBlocks, nDrops, nextSeq, obsVars>>

\* ------------------------------------------------------------------- Next
\* The steps of initialize().
InitStep ==
  \/ \E ok \in BOOLEAN : InitOwner(ok)
  \/ InitCountFail
  \/ \E n \in ChainCounts : InitCount(n)

\* The steps of the drain loop other than the return of tx.wait().
DrainStep ==
  \/ \E f \in Fees : FeeOk(f)
  \/ FeeFail
  \/ UploadOk
  \/ \E failed \in SUBSET (1..batchSize) : UploadFail(failed)
  \/ EstimateOk
  \/ EstimateFail
  \/ SendOk
  \/ SendFail
  \/ Delay

\* tx.wait() settles.
WaitStep ==
  \/ \E logs \in ShortReceipts : WaitOk(logs)
  \/ WaitFail

\* The steps of the block handlers.
MonitorStep ==
  \/ Block
  \/ \E h \in Handlers : MonitorRetry(h)
  \/ \E h \in Handlers : \E outcome \in {"found", "absent", "error"} : MonitorKeep(h, outcome)

Next ==
  \/ MintCall
  \/ InitStep
  \/ DrainStep
  \/ WaitStep
  \/ MonitorStep

Spec == Init /\ [][Next]_vars

\* The callers that wait for the first call's initialize() before they call
\* again: no optimizedMintNft call is made while initialize() is running or
\* after it failed.  Every behaviour of SerialSpec is a behaviour of Spec.
SerialMintCall ==
  /\ initPc \in {"none", "done"}
  /\ MintCall

SerialNext ==
  \/ SerialMintCall
  \/ InitStep
  \/ DrainStep
  \/ WaitStep
  \/ MonitorStep

SerialSpec == Init /\ [][SerialNext]_vars

\* tx.wait() settles, with a receipt of up to MaxLogs logs.
ReceiptWaitStep ==
  \/ \E logs \in Receipts : WaitOk(logs)
  \/ WaitFail

\* The serial callers, with every receipt of up to MaxLogs logs.
ReceiptNext ==
  \/ SerialMintCall
  \/ InitStep
  \/ DrainStep
  \/ ReceiptWaitStep
  \/ MonitorStep

ReceiptSpec == Init /\ [][ReceiptNext]_vars

\* The in-flight entry of the transaction the drain awaits was removed by a
\* block handler: the ledger reported the transaction absent.
AwaitingDropped == pc = "wait" /\ nonce \notin DOMAIN pendingTransactions

\* Every external call returns or fails, except that the confirmation of a
\* transaction reported absent need not arrive; the timer of the inter-batch
\* delay fires.
Fairness ==
  /\ WF_vars(InitStep)
  /\ WF_vars(DrainStep)
  /\ WF_vars(WaitStep /\ ~AwaitingDropped)
  /\ WF_vars(\E h \in Handlers : MonitorRetry(h)
               \/ \E outcome \in {"found", "absent", "error"} : MonitorKeep(h, outcome))

FairSpec == Init /\ [][Next]_vars /\ Fairness

\* ================================================================= claims

\* Requests that addToQueue has received.
Enqueued == 1..nReq

Completions(r) == resolveCount[r] + rejectCount[r]

\* C1: the completion handle of every request passed to addToQueue is invoked
\* at most once in total, counting resolve and reject calls of the drain
\* loop, of the batch-wide rejection and of the addToQueue catch callback.
C1_AtMostOnceCompletion ==
  \A r \in Requests : Completions(r) <= 1

\* Nothing is running and nothing is queued: no drain, no request waiting,
\* no block handler at its await.
Quiescent ==
  /\ pc = "idle"
  /\ queue = <<>>
  /\ \A h \in Handlers : handlers[h].pc # "query"

\* C2: every request passed to addToQueue is eventually resolved or
\* rejected.  Stated on the final result: once the processor is quiescent
\* (no code holds a request any more), every request it received has been
\* completed.
C2_EventualCompletion ==
  Quiescent => \A r \in Enqueued : Completions(r) >= 1

\* C3: the nonces passed to safeMint over the lifetime of the processor are
\* strictly increasing, so no nonce is used twice.
C3_NoncesStrictlyIncreasing ==
  \A i, j \in 1..Len(sent) : i < j => sent[i].nonce < sent[j].nonce

\* C4: for every request at most one mint transaction sent on its behalf is
\* ever confirmed.
C4_AtMostOneConfirmedMint ==
  \A r \in Requests : confirmedCount[r] <= 1

\* C9: no request is dequeued and no transaction is sent by a processor whose
\* initialize() has not completed successfully.
C9_NoMintBeforeInitialized ==
  (batchLog # <<>> \/ sent # <<>>) => initPc = "done"

\* C10: every call of getOptimizedMintProcessor that returns, returns the one
\* processor object ever constructed, and initialize() is invoked at most once.
C10_SingletonIdempotence ==
  /\ nCreated <= 1
  /\ initCalls <= 1
  /\ returned \subseteq {processor}
  /\ Cardinality(returned) <= 1

\* C10 witness: a second call returned the processor while the first call's
\* initialize() was still running, and a third call returned it as well.
C10_Witness ==
  /\ nCalls = MaxCalls
  /\ nReq >= 2
  /\ initPc \in {"owner", "count"}
  /\ returned = {1}
  /\ initCalls = 1

\* A drain ends in this step.
DrainEnds == processing /\ ~processing'

PublishFails == pc = "upload" /\ pc' \notin {"upload", "estimate"}

\* C6: when the metadata upload of a batch fails, every request of the batch
\* is rejected (once per occurrence in the batch), no transaction is sent, no
\* in-flight entry is made, currentNonce is unchanged by the failure, and the
\* drain goes on: to the inter-batch delay if requests are queued, otherwise
\* to its normal end.
C6_PublishFailureBatchWide ==
  [][PublishFails =>
       /\ \A r \in Requests : rejectCount'[r] = rejectCount[r] + Occurrences(batch, r)
       /\ resolveCount' = resolveCount
       /\ sent' = sent
       /\ pendingTransactions' = pendingTransactions
       /\ currentNonce' = currentNonce
       /\ queue' = queue
       /\ IF queue = <<>> THEN pc' = "idle" /\ ~processing'
                          ELSE pc' = "delay" /\ processing']_vars

\* C6 witness: the upload of a batch of two requests failed, both are
\* rejected, and the drain sleeps before the next batch.
C6_Witness ==
  /\ lastEvent = "UploadFail"
  /\ pc = "delay"
  /\ queue # <<>>
  /\ Len(batchLog[Len(batchLog)]) = 2
  /\ \A k \in 1..2 : rejectCount[batchLog[Len(batchLog)][k]] >= 1

\* The three requests of the scenario were enqueued back to back on an idle,
\* initialized processor and nothing was dropped.
C7_Scenario == creatorReq = 1 /\ nReq = 3 /\ nDrops = 0 /\ batchSize = 2

\* C7: three requests enqueued on an idle processor with batch size 2 and
\* allocator value n: the first batch holds requests 1 and 2 and leaves
\* request 3 queued; when all three are minted, the batches were <<1, 2>> and
\* <<3>>, with nonces n, n+1 and n+2 and one fee quote for requests 1 and 2.
C7_BatchingScenario ==
  /\ (C7_Scenario /\ Len(batchLog) = 1 /\ pc = "fee")
       => (batchLog[1] = <<1, 2>> /\ Ids(queue) = <<3>>)
  /\ (C7_Scenario /\ pc = "idle" /\ queue = <<>> /\ Len(sent) = 3
        /\ \A r \in Requests : resolveCount[r] = 1 /\ rejectCount[r] = 0)
       => /\ batchLog = << <<1, 2>>, <<3>> >>
          /\ Ids(sent) = <<1, 2, 3>>
          /\ sent[2].nonce = sent[1].nonce + 1
          /\ sent[3].nonce = sent[1].nonce + 2
          /\ sent[1].fee = sent[2].fee

\* The step in which a block handler re-queues the request of handler h.
RetriesIn(h) ==
  /\ handlers[h].pc = "query"
  /\ handlers'[h] # handlers[h]
  /\ nDrops' = nDrops + 1

\* C8: the drop-and-retry step removes the in-flight entry of the nonce, puts
\* a copy of its request with fee floor(entry fee * 120 / 100) in front of
\* all waiting requests, and starts a drain if none is active (which then
\* takes its batch from that queue at once); and every re-queued request is
\* later sent with a nonce different from the nonces dropped for it.
C8_DropAndRetryStep ==
  /\ [][\A h \in Handlers : RetriesIn(h) =>
          /\ handlers[h].nonce \notin DOMAIN pendingTransactions'
          /\ LET copy == [id |-> handlers[h].entry.request.id,
                          gasPrice |-> (handlers[h].entry.gasPrice * 120) \div 100,
                          dropped |-> handlers[h].entry.request.dropped
                                        \cup {handlers[h].nonce}]
             IN  IF processing
                   THEN queue' = <<copy>> \o queue /\ UNCHANGED <<processing, batch>>
                   ELSE /\ processing'
                        /\ batch' \o queue' = <<copy>> \o queue
                        /\ batch'[1] = copy]_vars
  /\ [](\A k \in 1..Len(sent) : sent[k].nonce \notin sent[k].dropped)

\* C11: when a request the monitor re-queued with a fee override is submitted
\* again, safeMint is called with that override as its fee.  The override is
\* floor(recorded fee * 120 / 100), greater than the recorded fee for every
\* recorded fee of 5 or more, so this also states the strict increase.
C11_RetryUsesIncreasedFee ==
  \A k \in 1..Len(sent) :
    sent[k].override # NoGasPrice => sent[k].fee = sent[k].override

\* The logs of a receipt that parse as a Transfer event.
TransferLogs(logs) ==
  {k \in 1..Len(logs) : logs[k].parse = "event" /\ logs[k].name = "Transfer"}

\* The decimal text of the token ids of the model.
TokenText(a) == IF a = 1 THEN "1" ELSE IF a = 2 THEN "2" ELSE "?"

\* C12: in the step in which a transaction is confirmed, the request is
\* resolved once and not rejected, with a result for that request and that
\* transaction whose tokenId is "0" when no log of the receipt parses as a
\* Transfer event, and otherwise the token id of the first log that does.
C12_DegradedSuccess ==
  [][confirmedCount' # confirmedCount =>
       LET r == batch[idx].id
           logs == lastResult'.logs
           T == TransferLogs(logs)
       IN  /\ resolveCount' = [resolveCount EXCEPT ![r] = @ + 1]
           /\ rejectCount' = rejectCount
           /\ lastResult'.request = r
           /\ lastResult'.nonce = nonce
           /\ T = {} => lastResult'.tokenId = "0"
           /\ T # {} =>
                \E k \in T : /\ \A j \in T : k <= j
                             /\ lastResult'.tokenId = TokenText(logs[k].arg)]_vars

\* C12 witness: a transaction was confirmed with a receipt of two logs, one
\* whose parse throws and one that parses to another event; its request is
\* resolved with tokenId "0" and was never rejected.
C12_Witness ==
  /\ lastEvent = "WaitOk"
  /\ Len(lastResult.logs) = 2
  /\ lastResult.logs[1].parse = "throws"
  /\ lastResult.logs[2].name = "Approval"
  /\ lastResult.tokenId = "0"
  /\ resolveCount[lastResult.request] = 1
  /\ rejectCount[lastResult.request] = 0

\* An execution of processBatch is past its processing check.
DrainActive == pc # "idle"

\* A step of the two callers of processBatch: addToQueue pushed a request,
\* or a block handler put a request back.
EnqueueStep == nReq' # nReq \/ nDrops' # nDrops

\* C13: at most one execution of processBatch is past its processing check.
\* Executions start only in the steps of addToQueue and of the block handler;
\* the flag is true exactly while an execution is active, and such a step
\* taken while the flag is true starts nothing: the running drain's position
\* and batch, the allocator and the batches formed are untouched, the queue
\* changes by the caller's one insertion only, and the in-flight map changes
\* by the handler's own delete only.  (The step in which initialize() returns
\* sets the allocator itself before its caller reaches addToQueue.)
C13_DrainMutualExclusion ==
  /\ [](processing <=> DrainActive)
  /\ [][(EnqueueStep /\ processing) =>
          /\ UNCHANGED <<processing, pc, batch, idx, nonce, feeQuote, starter>>
          /\ UNCHANGED <<batchLog, sent>>
          /\ initPc' = initPc => currentNonce' = currentNonce
          /\ Len(queue') = Len(queue) + 1
          /\ \A n \in DOMAIN pendingTransactions' :
               /\ n \in DOMAIN pendingTransactions
               /\ pendingTransactions'[n] = pendingTransactions[n]
          /\ nDrops' = nDrops => pendingTransactions' = pendingTransactions]_vars

\* C13 witness: while the drain of the first batch awaits a confirmation, a
\* block handler put a request back and addToQueue pushed another one; both
\* wait in the queue and no second batch was formed.
C13_Witness ==
  /\ lastEvent = "MonitorRetry"
  /\ processing
  /\ pc = "wait"
  /\ Len(batchLog) = 1
  /\ Len(queue) = 2
  /\ queue[1].dropped # {}
  /\ queue[2].dropped = {}

\* The for loop is at one of the awaits of an item.
InItem == pc \in {"estimate", "send", "wait"}

\* The step in which gas estimation, submission or the confirmation wait of
\* the current item fails.
ItemFails == InItem /\ rejectCount' # rejectCount

\* C14: a failure of gas estimation, of submission or of the confirmation
\* wait of an item rejects that item's request once and no other request,
\* resolves nothing, and the for loop goes on with the same batch: the next
\* item, if there is one, is estimated next (and is then submitted and
\* awaited unless it fails itself).
C14_PerItemFailureIsolation ==
  /\ [][ItemFails =>
          /\ rejectCount' = [rejectCount EXCEPT ![batch[idx].id] = @ + 1]
          /\ resolveCount' = resolveCount
          /\ idx < Len(batch) =>
               /\ pc' = "estimate"
               /\ idx' = idx + 1
               /\ batch' = batch]_vars
  /\ [][(InItem /\ ~ItemFails /\ pc' \in {"send", "wait"}) =>
          /\ idx' = idx
          /\ batch' = batch
          /\ UNCHANGED <<resolveCount, rejectCount>>]_vars

\* C14 witness: a batch of two requests was processed to its end; the
\* submission of its first item failed and its second item was confirmed.
C14_Witness ==
  /\ lastEvent = "WaitOk"
  /\ batchLog # <<>>
  /\ LET b == batchLog[Len(batchLog)]
     IN  /\ Len(b) = 2
         /\ b[1] # b[2]
         /\ rejectCount[b[1]] = 1 /\ resolveCount[b[1]] = 0
         /\ resolveCount[b[2]] = 1 /\ rejectCount[b[2]] = 0
         /\ \E k \in 1..Len(sent) : sent[k].id = b[2]
  /\ pc \in {"idle", "delay"}

\* The step that ends the for loop of a batch whose metadata was published.
BatchProcessed == InItem /\ pc' \in {"delay", "idle"}

\* C15: a batch that reaches the submission stage gets the contiguous nonces
\* from the allocator value at its start (item i gets that value + i, here
\* i = idx - 1); currentNonce does not change while the items are processed,
\* is increased by the batch's length in the step that ends the for loop
\* whatever the items' outcomes, and changes in no other step of the drain;
\* between batches every nonce assigned so far is below currentNonce.
C15_AllocatorAdvance ==
  /\ [](InItem => nonce = currentNonce + (idx - 1))
  /\ [][(InItem /\ ~BatchProcessed) => currentNonce' = currentNonce]_vars
  /\ [][BatchProcessed => currentNonce' = currentNonce + Len(batch)]_vars
  /\ [][currentNonce' # currentNonce => (BatchProcessed \/ initPc' # initPc)]_vars
  /\ [](~InItem => \A k \in 1..Len(sent) : sent[k].nonce < currentNonce)

\* The number of times a request held by the program was re-queued by the
\* monitor: the in-flight entries it replaced.
Requeues(req) == Cardinality(req.dropped)

\* C16: a request is re-queued by the monitor at most maxRetries times, and
\* the retry count recorded in an in-flight entry is the number of times its
\* request was re-queued, so it grows with each resubmission.
C16_RetryBudget ==
  /\ \A k \in 1..Len(queue) : Requeues(queue[k]) <= maxRetries
  /\ \A n \in DOMAIN pendingTransactions :
       pendingTransactions[n].retries = Requeues(pendingTransactions[n].request)

\* The pipeline has sent a transaction for request r and awaits its
\* confirmation.
AwaitingConfirmation(r) == pc = "wait" /\ batch[idx].id = r

\* C17: every request that is not yet completed occurs at most once in the
\* queue, and is not in the queue while the pipeline awaits the confirmation
\* of a transaction sent for it.
C17_SingleOwnership ==
  \A r \in Requests :
    Completions(r) = 0 =>
      /\ Occurrences(queue, r) <= 1
      /\ ~(InQueue(r) /\ AwaitingConfirmation(r))

\* The step in which the drain loop ends through the fatal error.
FatalExit == pc = "fee" /\ pc' = "idle"

\* The step of an addToQueue call.
AddToQueueStep == nReq' = nReq + 1

\* C18: the step in which the fee estimate fails leaves processing false,
\* currentNonce unchanged and the queue as it was; and an addToQueue call
\* made while processing is false starts a drain whose first batch is taken
\* from the requests still in the queue followed by the new one.
C18_FatalErrorCleanup ==
  /\ [][FatalExit =>
          /\ ~processing'
          /\ currentNonce' = currentNonce
          /\ queue' = queue]_vars
  /\ [][(AddToQueueStep /\ pc = "idle") =>
          /\ processing'
          /\ pc' = "fee"
          /\ batch' \o queue' = Append(queue, NewRequest(nReq'))
          /\ Len(batch') = Min(batchSize, Len(queue) + 1)]_vars

\* C18 witness: a drain ended through the fatal error with a request still
\* queued, and the next addToQueue call started a drain whose batch holds
\* that request and the new one.
C18_Witness ==
  /\ lastEvent = "FeeFail"
  /\ processing
  /\ pc = "fee"
  /\ Len(batch) = 2
  /\ batch[2].id = nReq
  /\ batch[1].id < nReq
  /\ Completions(batch[1].id) = 0

\* The step in which a pass of the drain takes its batch.
BatchTaken == Len(batchLog') = Len(batchLog) + 1

\* The queue the splice of this step acts on: the queue before the step with
\* the request this step's caller inserted, if any.
QueueAtSplice ==
  IF nReq' # nReq THEN Append(queue, NewRequest(nReq'))
  ELSE IF \E h \in Handlers : RetriesIn(h)
    THEN LET h == CHOOSE h \in Handlers : RetriesIn(h)
         IN  <<[id |-> handlers[h].entry.request.id,
                gasPrice |-> (handlers[h].entry.gasPrice * 120) \div 100,
                dropped |-> handlers[h].entry.request.dropped \cup {handlers[h].nonce}]>>
               \o queue
  ELSE queue

\* C19: the step that takes a batch removes exactly the first
\* min(batchSize, queue length) requests of the queue in queue order and
\* leaves the rest in order; a batch is never empty nor longer than
\* batchSize and does not change while it is processed; its items are
\* submitted one after the other in batch order.
C19_BatchFormation ==
  /\ [][BatchTaken =>
          LET q == QueueAtSplice
              n == Min(batchSize, Len(q))
          IN  /\ batch' = SubSeq(q, 1, n)
              /\ queue' = SubSeq(q, n + 1, Len(q))
              /\ batchLog'[Len(batchLog')] = Ids(batch')]_vars
  /\ [](Len(batch) <= batchSize /\ (pc # "idle" /\ pc # "delay" => Len(batch) >= 1))
  /\ [][(InItem /\ ~BatchProcessed) =>
          /\ batch' = batch
          /\ idx' \in {idx, idx + 1}]_vars
  /\ [][Len(sent') # Len(sent) =>
          /\ Len(sent') = Len(sent) + 1
          /\ sent'[Len(sent')].id = batch[idx].id
          /\ \A k \in 1..Len(sent) : sent'[k] = sent[k]]_vars

\* C19 witness: the queue held three requests, among them a copy the monitor
\* put at the front, when a pass took its batch: the batch holds the first
\* two in queue order and the third stays queued.
C19_Witness ==
  /\ pc = "fee"
  /\ Len(batch) = batchSize
  /\ Len(queue) = 1
  /\ batch[1].dropped # {}
  /\ batch[2].id < queue[1].id

\* C20: every entry of pendingTransactions refers to a request that has not
\* been resolved or rejected yet, and the monitor never re-queues a request
\* that is already completed.
C20_InFlightOnlyPending ==
  /\ [](\A n \in DOMAIN pendingTransactions :
          Completions(pendingTransactions[n].request.id) = 0)
  /\ [][\A h \in Handlers :
          RetriesIn(h) => Completions(handlers[h].entry.request.id) = 0]_vars

====
